---- MODULE Spec2Model ----
(***************************************************************************)
(* The tool registry of src/utils/tools.py and the handlers that drive it  *)
(* (src/utils/tools.py bind_app_tools, src/main.py, src/utils/__init__.py).*)
(*                                                                         *)
(* The registry is a process-wide singleton: a dict name -> ToolSchema     *)
(* (insertion ordered) and a reference to the FastAPI app.  A scan walks   *)
(* app.routes, and for each route whose handler carries _tool_info builds  *)
(* a ToolSchema and registers it.  Every handler that scans or lists is an *)
(* `async def` without an `await`, so it runs on the event loop from its   *)
(* first statement to its return; the model keeps the statements of a scan *)
(* as separate steps and states that scheduling rule in Runnable.          *)
(***************************************************************************)
EXTENDS Integers, Sequences, FiniteSets, TLC

VARIABLES
    host,       \* which host program the registry runs in
    app,        \* ToolRegistry.app: FALSE = None, TRUE = bound to the FastAPI app
    routes,     \* app.routes: the route table, in enumeration order
    tools,      \* ToolRegistry.tools: the dict, as its items in insertion order
    clock,      \* datetime.now(), in ticks
    pc,         \* pc[t]: where the call in flight on task t stands
    handler,    \* handler[t]: the handler task t runs
    idx,        \* idx[t]: position of the scan's `for route in self.app.routes`
    loop,       \* the task the event loop is running, 0 when it is free
    last,       \* the last call made on the registry and what it gave its caller
    obs,        \* the last list returned by get_all_tools(), and when it was taken
    committed,  \* the registry as the last scan that ran to its end, or the
                \* last register_tool(), left it
    hint,       \* the type hint a conversion is applied to
    conv,       \* what the last conversion of hint returned
    subject,    \* the position in app.routes of the route one iteration of
                \* the scan is followed through, hop by hop
    step,       \* where that iteration stands
    cur,        \* current_func: the layer of the wrapping chain a walk is at
    turn,       \* the parity of the turns the running `while` loop has made
    desc,       \* what the iteration made of the route
    seed,       \* the hash seed of the process (PYTHONHASHSEED), which fixes
                \* the order a set of strings is iterated in
    held        \* the list a caller got from get_all_tools() and still holds

\* The variables of the hop-by-hop view of one iteration, of the process
\* and of the callers: what the operations of the registry leave alone.
dvars == <<hint, conv, subject, step, cur, turn, desc, seed, held>>

vars == <<host, app, routes, tools, clock, pc, handler, idx, loop, last, obs, committed, hint, conv, subject, step, cur, turn, desc, seed, held>>

----------------------------------------------------------------------------
(* Bounds of the model. *)

MaxRoutes == 3
MaxClock == 1
NumTasks == 2

Tasks == 1..NumTasks

Max(S) == CHOOSE x \in S : \A y \in S : y <= x

----------------------------------------------------------------------------
(* Paths are strings; the scan tests them with str.startswith, so they are *)
(* kept as sequences of characters.                                        *)

P_root == <<"/">>
P_extract == <<"/", "e", "x">>
P_doc == <<"/", "d", "/", "{", "i", "}">>
P_stats == <<"/", "s">>
P_static == <<"/", "m">>
P_tools == <<"/", "t", "o", "o", "l", "s">>
P_tools_all == P_tools \o <<"/", "a", "l", "l">>
P_tools_scan == P_tools \o <<"/", "s", "c", "a", "n">>
P_toolshed == P_tools \o <<"h", "e", "d">>

startswith(s, prefix) ==
    /\ Len(s) >= Len(prefix)
    /\ SubSeq(s, 1, Len(prefix)) = prefix

----------------------------------------------------------------------------
(* Values.  An example is a JSON value: None, a string, a number, a bool,   *)
(* a list or a dict.  Atoms are kept by their text; a list keeps its items *)
(* and a dict its items in insertion order; the string that datetime.now() *)
(* .isoformat() returns carries the tick it was made at.                   *)

Val(k, a, e, ts) == [k |-> k, a |-> a, e |-> e, ts |-> ts]

None == Val("None", "", <<>>, -1)
V_str(s) == Val("str", s, <<>>, -1)
V_int(s) == Val("int", s, <<>>, -1)
V_float(s) == Val("float", s, <<>>, -1)
V_bool(s) == Val("bool", s, <<>>, -1)
ListOf(items) == Val("list", "", items, -1)
Item(key, val) == [key |-> key, val |-> val]
DictOf(items) == Val("dict", "", items, -1)
EmptyDict == DictOf(<<>>)
EmptyList == ListOf(<<>>)
\* datetime.now().isoformat()
IsoNow(now) == Val("str", "isoformat", <<>>, now)

\* Python truth value: None, "", 0, 0.0, False, [] and {} are false.
Truthy(v) ==
    CASE v.k = "None" -> FALSE
      [] v.k = "str" -> v.a # ""
      [] v.k = "int" -> v.a # "0"
      [] v.k = "float" -> v.a # "0.0"
      [] v.k = "bool" -> v.a = "True"
      [] OTHER -> v.e # <<>>

\* Python `a or b`.
Or(a, b) == IF Truthy(a) THEN a ELSE b

----------------------------------------------------------------------------
(* Type hints, as the annotations of a handler give them.  k is the kind:  *)
(* the builtins str, int, float, bool, list, dict; None; datetime; an Enum *)
(* class; a pydantic model class; typing.Union (Optional[T] is Union[T,    *)
(* None]), List[T], Dict[K, V]; and "other" for any class the conversion   *)
(* has no rule for.  name is __name__, args is get_args().                 *)

Hint(k, name, args) ==
    [k |-> k, name |-> name, args |-> args, fields |-> <<>>,
     schema_extra |-> None, doc_example |-> None]

T_str == Hint("str", "str", <<>>)
T_int == Hint("int", "int", <<>>)
T_float == Hint("float", "float", <<>>)
T_bool == Hint("bool", "bool", <<>>)
T_list == Hint("list", "list", <<>>)
T_dict == Hint("dict", "dict", <<>>)
T_None == Hint("None", "None", <<>>)
T_NoneType == Hint("NoneType", "NoneType", <<>>)
T_datetime == Hint("datetime", "datetime", <<>>)
T_Any == Hint("other", "Any", <<>>)
T_Enum == Hint("Enum", "Color", <<>>)
ListT(t) == Hint("List", "List", <<t>>)
DictT(kt, vt) == Hint("Dict", "Dict", <<kt, vt>>)
UnionT(args) == Hint("Union", "Union", args)
\* Optional[T]: typing flattens Optional[Union[A, B]] to Union[A, B, None].
OptionalT(t) ==
    IF t.k # "Union" THEN UnionT(<<t, T_NoneType>>)
    ELSE IF \E i \in 1..Len(t.args) : t.args[i] = T_NoneType THEN t
    ELSE UnionT(t.args \o <<T_NoneType>>)

(* A field of a pydantic model: its annotation, whether it is required,    *)
(* its default when it is not, and json_schema_extra["example"] (None when *)
(* the field declares none).                                               *)
ModelField(name, annotation, required, default, example) ==
    [name |-> name, annotation |-> annotation, required |-> required,
     default |-> default, example |-> example]

(* A pydantic model class: its fields in order, Config.schema_extra        *)
(* ["example"] (None when Config has no schema_extra) and the example its  *)
(* docstring gives after "Example:" (None when it gives none).             *)
ModelT(name, fields, schema_extra, doc_example) ==
    [k |-> "Model", name |-> name, args |-> <<>>, fields |-> fields,
     schema_extra |-> schema_extra, doc_example |-> doc_example]

\* [arg for arg in args if arg is not type(None)]
non_none_args(args) == SelectSeq(args, LAMBDA a : a.k # "NoneType")

----------------------------------------------------------------------------
(* JSON schemas.  A schema is a dict; `keys` is the set of keys it has and *)
(* the other fields are the values under them (a default where the key is  *)
(* absent).  "type" is a string or a list of strings; a description is the *)
(* sequence of the pieces it was formatted from; "properties" keeps its    *)
(* items in insertion order as <<name, schema>> items; `of` is the list    *)
(* under "oneOf" or "anyOf"; additionalProperties: True is kept as the     *)
(* schema {}, which accepts the same values.                               *)

SchemaDict(keys, type, description) ==
    [keys |-> keys, type |-> type, description |-> description,
     properties |-> <<>>, required |-> <<>>, items |-> <<>>, of |-> <<>>,
     additionalProperties |-> <<>>, title |-> "", loc |-> "", default |-> <<>>]

\* {}
AnySchema == SchemaDict({}, <<>>, <<>>)

\* {"type": t, "description": d}
Described(t, d) == SchemaDict({"type", "description"}, <<t>>, d)

\* schema.get("description", alt)
DescriptionOr(schema, alt) ==
    IF "description" \in schema.keys THEN schema.description ELSE alt

Prop(name, schema) == [key |-> name, val |-> schema]

\* The default fallback of _type_to_schema.
FallbackSchema(h) == Described("object", <<"Object of type", h.name>>)

----------------------------------------------------------------------------
(* What pydantic gives for a model class.                                  *)

RECURSIVE field_json_schema(_)
RECURSIVE model_json_schema(_)

\* The schema pydantic writes for an annotation inside a model.
field_json_schema(h) ==
    CASE h.k = "str" -> SchemaDict({"type"}, <<"string">>, <<>>)
      [] h.k = "int" -> SchemaDict({"type"}, <<"integer">>, <<>>)
      [] h.k = "float" -> SchemaDict({"type"}, <<"number">>, <<>>)
      [] h.k = "bool" -> SchemaDict({"type"}, <<"boolean">>, <<>>)
      [] h.k = "datetime" -> SchemaDict({"type", "format"}, <<"string">>, <<>>)
      [] h.k = "Enum" -> SchemaDict({"type", "enum"}, <<"string">>, <<>>)
      [] h.k \in {"None", "NoneType"} -> SchemaDict({"type"}, <<"null">>, <<>>)
      [] h.k = "list" ->
            [SchemaDict({"type", "items"}, <<"array">>, <<>>) EXCEPT !.items = <<AnySchema>>]
      [] h.k = "dict" -> SchemaDict({"type"}, <<"object">>, <<>>)
      [] h.k = "List" ->
            [SchemaDict({"type", "items"}, <<"array">>, <<>>)
                EXCEPT !.items = <<field_json_schema(h.args[1])>>]
      [] h.k = "Dict" ->
            [SchemaDict({"type", "additionalProperties"}, <<"object">>, <<>>)
                EXCEPT !.additionalProperties = <<field_json_schema(h.args[2])>>]
      [] h.k = "Union" ->
            [SchemaDict({"anyOf"}, <<>>, <<>>)
                EXCEPT !.of = [i \in 1..Len(h.args) |-> field_json_schema(h.args[i])]]
      [] h.k = "Model" -> model_json_schema(h)
      [] OTHER -> AnySchema

\* cls.model_json_schema(): an object schema with one property per field, in
\* field order; a field is in "required" when it has no default, and carries
\* its default under "default" when it has one.
model_json_schema(m) ==
    LET with_default(f, fs) ==
            IF f.required THEN fs
            ELSE [fs EXCEPT !.keys = @ \cup {"default"}, !.default = <<f.default>>]
        prop(f) ==
            Prop(f.name,
                 with_default(f, [field_json_schema(f.annotation) EXCEPT
                                     !.keys = @ \cup {"title"}, !.title = f.name]))
        req == SelectSeq(m.fields, LAMBDA f : f.required)
    IN [SchemaDict({"type", "title", "properties"} \cup
                       (IF req = <<>> THEN {} ELSE {"required"}),
                   <<"object">>, <<>>)
           EXCEPT !.title = m.name,
                  !.properties = [i \in 1..Len(m.fields) |-> prop(m.fields[i])],
                  !.required = [i \in 1..Len(req) |-> req[i].name]]

\* cls.model_construct().model_dump(): the fields that have a default.
model_construct_dump(m) ==
    LET opt == SelectSeq(m.fields, LAMBDA f : ~f.required)
    IN DictOf([i \in 1..Len(opt) |-> Item(opt[i].name, opt[i].default)])

----------------------------------------------------------------------------
(* _enhance_schema_properties: a description for every property, array and *)
(* object that has a title and no description.                             *)

RECURSIVE enhance_schema_properties(_)
enhance_schema_properties(schema) ==
    LET described(p, d) ==
            [p EXCEPT !.keys = @ \cup {"description"}, !.description = d]
        titled(p) ==
            IF "description" \notin p.keys /\ "title" \in p.keys
            THEN described(p, <<p.title, "value">>)
            ELSE p
        prop(kv) == Prop(kv.key, titled(enhance_schema_properties(kv.val)))
        array_of(s, it) ==
            IF "description" \notin s.keys
            THEN described([s EXCEPT !.items = <<it>>],
                           <<"Array of">> \o DescriptionOr(it, <<"items">>))
            ELSE [s EXCEPT !.items = <<it>>]
        items_of(s) ==
            IF s.type = <<"array">> /\ "items" \in s.keys
            THEN array_of(s, enhance_schema_properties(s.items[1]))
            ELSE s
        object_of(s) ==
            IF s.type = <<"object">> /\ "description" \notin s.keys /\ "title" \in s.keys
            THEN described(s, <<s.title, "object">>)
            ELSE s
    IN object_of(items_of([schema EXCEPT !.properties =
           [i \in 1..Len(schema.properties) |-> prop(schema.properties[i])]]))

----------------------------------------------------------------------------
(* _type_to_schema: <<schema, example>> for a type hint.                   *)

\* The entries of basic_types.
basic_types(h) ==
    CASE h.k = "str" -> <<Described("string", <<"Text string">>), V_str("example_string")>>
      [] h.k = "int" -> <<Described("integer", <<"Integer number">>), V_int("0")>>
      [] h.k = "float" -> <<Described("number", <<"Floating-point number">>), V_float("0.0")>>
      [] h.k = "bool" -> <<Described("boolean", <<"Boolean value">>), V_bool("False")>>
      [] h.k = "list" ->
            <<[SchemaDict({"type", "items", "description"}, <<"array">>, <<"List of items">>)
                  EXCEPT !.items = <<AnySchema>>], EmptyList>>
      [] h.k = "dict" ->
            <<Described("object", <<"Dictionary of key-value pairs">>), EmptyDict>>
      [] h.k = "None" -> <<Described("null", <<"No value">>), None>>

RECURSIVE type_to_schema(_)
type_to_schema(h) ==
    CASE h.k \in {"str", "int", "float", "bool", "list", "dict", "None"} -> basic_types(h)
      [] h.k = "Model" ->
            <<enhance_schema_properties(model_json_schema(h)), model_construct_dump(h)>>
      [] h.k = "Union" ->
            IF \E i \in 1..Len(h.args) : h.args[i].k = "NoneType"
            THEN LET r == type_to_schema(non_none_args(h.args)[1])
                     base_schema == r[1]
                 IN IF "type" \in base_schema.keys /\ Len(base_schema.type) = 1
                    THEN <<[base_schema EXCEPT
                               !.type = <<base_schema.type[1], "null">>,
                               !.keys = @ \cup {"description"},
                               !.description =
                                   <<"Optional">> \o DescriptionOr(base_schema, <<"value">>)],
                           r[2]>>
                    ELSE r
            ELSE <<[SchemaDict({"oneOf", "description"}, <<>>, <<"One of multiple possible types">>)
                       EXCEPT !.of = [i \in 1..Len(h.args) |-> type_to_schema(h.args[i])[1]]],
                   None>>
      [] h.k = "List" /\ h.args # <<>> ->
            LET r == type_to_schema(h.args[1])
            IN <<[SchemaDict({"type", "items", "description"}, <<"array">>,
                             <<"List of">> \o DescriptionOr(r[1], <<"items">>))
                     EXCEPT !.items = <<r[1]>>],
                 IF r[2] # None THEN ListOf(<<r[2]>>) ELSE EmptyList>>
      [] h.k = "Dict" ->
            IF Len(h.args) >= 2
            THEN LET kr == type_to_schema(h.args[1])
                     vr == type_to_schema(h.args[2])
                 IN <<[SchemaDict({"type", "additionalProperties", "description"}, <<"object">>,
                                  <<"Dictionary with", h.args[1].name, "keys and">>
                                      \o DescriptionOr(vr[1], <<"values">>))
                          EXCEPT !.additionalProperties = <<vr[1]>>],
                      IF kr[2] # None /\ vr[2] # None
                      THEN DictOf(<<Item(kr[2].a, vr[2])>>)
                      ELSE EmptyDict>>
            ELSE basic_types(T_dict)
      \* An Enum class has __members__ and no __enum__, so the Enum rule never
      \* applies; datetime, Any and every other class have no rule either.
      [] OTHER -> <<FallbackSchema(h), EmptyDict>>

----------------------------------------------------------------------------
(* _generate_field_example and _create_example_from_model.                 *)

RECURSIVE generate_field_example(_, _)
generate_field_example(h, now) ==
    CASE h.k = "str" -> V_str("example_string")
      [] h.k = "int" -> V_int("42")
      [] h.k = "float" -> V_float("3.14")
      [] h.k = "bool" -> V_bool("True")
      [] h.k = "list" -> EmptyList
      [] h.k = "dict" -> EmptyDict
      [] h.k = "datetime" -> IsoNow(now)
      [] h.k = "Union" /\ (\E i \in 1..Len(h.args) : h.args[i].k = "NoneType") ->
            generate_field_example(non_none_args(h.args)[1], now)
      [] h.k = "List" /\ h.args # <<>> ->
            ListOf(<<generate_field_example(h.args[1], now)>>)
      [] h.k = "Model" ->
            DictOf([i \in 1..Len(h.fields) |->
                       Item(h.fields[i].name,
                            generate_field_example(h.fields[i].annotation, now))])
      [] OTHER -> None

\* Strategy 1 reads Config.schema_extra; strategy 2 takes each field's own
\* example or a placeholder and returns whenever the model has a field;
\* strategies 3 and 4 are left for a model without fields.
create_example_from_model(m, now) ==
    IF m.schema_extra # None THEN m.schema_extra
    ELSE IF m.fields # <<>>
    THEN DictOf([i \in 1..Len(m.fields) |->
                    Item(m.fields[i].name,
                         IF m.fields[i].example # None
                         THEN m.fields[i].example
                         ELSE generate_field_example(m.fields[i].annotation, now))])
    ELSE IF m.doc_example # None THEN m.doc_example
    ELSE model_construct_dump(m)

----------------------------------------------------------------------------
(* Capability metadata, as auto_tool stores it in func._tool_info.         *)

tool_info(name, example_input, example_output) ==
    [set |-> TRUE, name |-> name, description |-> name, tags |-> <<name>>,
     example_input |-> example_input, example_output |-> example_output]

\* A layer of the wrapping chain that has no _tool_info attribute.
NoInfo ==
    [set |-> FALSE, name |-> "", description |-> "", tags |-> <<>>,
     example_input |-> None, example_output |-> None]

----------------------------------------------------------------------------
(* Handlers, as inspect sees them.                                         *)

\* inspect.Parameter.empty / inspect.Signature.empty
Empty == Hint("empty", "empty", <<>>)

(* The default of a parameter: k is "empty" (none declared), "plain" (a    *)
(* value such as False), "function" (a value that is a function object) or *)
(* "FieldInfo" (what Query(...), Path(...), Header(...), Cookie(...) and   *)
(* Body(...) return, of class cls).  For a FieldInfo, required says that   *)
(* its .default is `...`, value is its .default otherwise and example its  *)
(* .example.                                                               *)
Default(k, cls, required, value, example) ==
    [k |-> k, cls |-> cls, required |-> required, value |-> value,
     example |-> example]

NoDefault == Default("empty", "", TRUE, None, None)
Plain(value) == Default("plain", "", FALSE, value, None)

\* A parameter of the signature; var says it is *args or **kwargs.
Param(name, annotation, default) ==
    [name |-> name, annotation |-> annotation, default |-> default, var |-> FALSE]

(* The function at the end of the wrapping chain: its __name__, whether    *)
(* inspect.signature() succeeds on it, the first line of its docstring     *)
(* (<<>> when it has none), its parameters and its return annotation.      *)
Func(name, sig, doc, params, return_annotation) ==
    [name |-> name, sig |-> sig, doc |-> doc, params |-> params,
     return_annotation |-> return_annotation]

\* response_model was not passed to the route decorator.
NotDeclared == Hint("undeclared", "", <<>>)

(* A route: its path template; whether the route object has an `endpoint`  *)
(* (a Mount has none); the wrapping chain of the handler outermost first   *)
(* (layer k+1 is layer k's __wrapped__) and `back`, the layer the last one *)
(* has as its __wrapped__ (0 when it has none); the verbs route.methods     *)
(* holds, in the order they were declared in; the function at the end of   *)
(* the chain, whose name stands for the handler's identity; and the        *)
(* response_model the decorator declares.                                  *)
Route(path, endpoint, layers, back, methods, func, declared) ==
    [path |-> path, endpoint |-> endpoint, layers |-> layers, back |-> back,
     methods |-> methods, func |-> func, declared |-> declared]

\* route.endpoint == other.endpoint: the same function object, that is the
\* same wrapping chain around the same function.
SameEndpoint(r, q) ==
    r.layers = q.layers /\ r.back = q.back /\ r.func = q.func

\* APIRoute.response_model: the declared one, else FastAPI takes the return
\* annotation of the handler, else None.
response_model(route) ==
    IF route.declared # NotDeclared THEN route.declared
    ELSE IF route.func.return_annotation # Empty THEN route.func.return_annotation
    ELSE T_None

\* class ToolSchema(BaseModel): the fields of a descriptor.
ToolSchema(name, description, endpoint, method, input_schema, output_schema, tags, example_input, example_output) ==
    [name |-> name, description |-> description, endpoint |-> endpoint,
     method |-> method, input_schema |-> input_schema,
     output_schema |-> output_schema, tags |-> tags,
     example_input |-> example_input, example_output |-> example_output]

----------------------------------------------------------------------------
(* ToolRegistry: the dict and its accessors.                               *)

Names(reg) == {reg[k].name : k \in 1..Len(reg)}

\* self.tools[tool.name] = tool.  A new key goes to the end of the dict; an
\* existing key keeps its place and gets the new value.
register_tool(reg, tool) ==
    IF tool.name \in Names(reg)
    THEN [k \in 1..Len(reg) |-> IF reg[k].name = tool.name THEN tool ELSE reg[k]]
    ELSE Append(reg, tool)

\* list(self.tools.values())
get_all_tools(reg) == reg

\* self.tools.values() handed out as it is: a view of the dict, which shows
\* whatever the dict holds when it is read.
values_view(reg) == [live |-> TRUE, items |-> <<>>]

\* The object get_all_tools() returns: list(...) makes a new list with the
\* descriptors the dict holds at the call; it is no view of the dict.
values_list(reg) == [live |-> FALSE, items |-> get_all_tools(reg)]

\* What a returned object shows when it is read while the dict holds reg.
Shown(object, reg) == IF object.live THEN reg ELSE object.items

----------------------------------------------------------------------------
(* The steps of scan_and_register_tools on one route.                      *)

\* route.path.startswith("/tools") and route.path != "/tools/all"
SkipRoute(route) ==
    startswith(route.path, P_tools) /\ route.path # P_tools_all

\* A walk that falls back to default metadata when the chain has none.
FindToolInfo_default(layers, k) ==
    IF \E j \in k..Len(layers) : layers[j].set
    THEN layers[CHOOSE j \in k..Len(layers) : layers[j].set /\ \A m \in k..(j - 1) : ~layers[m].set]
    ELSE tool_info("", None, None)

\* The `while current_func` walk: the first layer, from the outermost, that
\* has _tool_info; NoInfo when the chain ends without one.
RECURSIVE FindToolInfo(_, _)
FindToolInfo(layers, k) ==
    IF k > Len(layers) THEN NoInfo
    ELSE IF layers[k].set THEN layers[k]
    ELSE FindToolInfo(layers, k + 1)

\* The hash seeds a process may start with.
Seeds == {0, 1}

\* iter(route.methods): route.methods is a set of strings, and the order it
\* is iterated in follows the hashes of the strings, which differ from one
\* process to another; it is the order of declaration under one seed and
\* the reverse under the other.
RECURSIVE Reverse(_)
Reverse(q) == IF q = <<>> THEN <<>> ELSE Append(Reverse(Tail(q)), Head(q))
iter(methods) == IF seed = 0 THEN methods ELSE Reverse(methods)

\* next(iter(route.methods)) if route.methods else "GET"
Method(route) ==
    IF route.methods # <<>> THEN Head(iter(route.methods)) ELSE "GET"

BodyMethods == {"POST", "PUT", "PATCH"}

\* if param_name in ("self", "cls", "request"): continue
Reserved == {"self", "cls", "request"}

\* isinstance(param.default, Body.__class__), and the same with Path, Query,
\* Header and Cookie: each of the five is a function of fastapi, so its
\* __class__ is the type of functions and the test asks whether the default
\* is a function object.
IsInstanceOfParamClass(default) == default.k = "function"

\* An extractor that returns an empty dict from its except clause.
GenericSchema_empty(d) == AnySchema

\* {"type": "object", "description": d}: what an extractor returns when an
\* exception reached its except clause, or when there is nothing to derive.
GenericSchema(d) == Described("object", d)

\* {"type": "object", "additionalProperties": True, "description": d}
OpenSchema(d) ==
    [SchemaDict({"type", "description", "additionalProperties"}, <<"object">>, d)
        EXCEPT !.additionalProperties = <<AnySchema>>]

\* The examples the fields of a model declare in json_schema_extra.
field_examples(m) ==
    LET with == SelectSeq(m.fields, LAMBDA f : f.example # None)
    IN DictOf([i \in 1..Len(with) |-> Item(with[i].name, with[i].example)])

\* _extract_body_schema: <<schema, example_input>>.  The first loop looks
\* for a Body parameter, the second for a parameter annotated with a model;
\* both pass over the reserved names.  An exception inside
\* (inspect.signature raising) is caught and gives the generic schema.
extract_body_schema(route) ==
    LET func == route.func
        body == SelectSeq(func.params, LAMBDA p :
                    /\ p.name \notin Reserved
                    /\ ~p.var
                    /\ p.default.k # "empty"
                    /\ IsInstanceOfParamClass(p.default))
        models == SelectSeq(func.params, LAMBDA p :
                    p.name \notin Reserved /\ p.annotation.k = "Model")
        found == IF body # <<>>
                 THEN IF body[1].annotation.k = "Model" THEN <<body[1].annotation>> ELSE <<>>
                 ELSE IF models # <<>> THEN <<models[1].annotation>> ELSE <<>>
    IN IF ~func.sig THEN <<GenericSchema(<<"Request body">>), None>>
       ELSE IF found # <<>>
       THEN <<enhance_schema_properties(model_json_schema(found[1])), field_examples(found[1])>>
       ELSE <<OpenSchema(<<"Request body for", func.name>>), EmptyDict>>

\* The names in {braces} among the segments of route.path.split("/")
\* (placeholders of one character).
path_params(path) ==
    {path[j + 1] : j \in {i \in 2..(Len(path) - 2) :
        /\ path[i - 1] = "/"
        /\ path[i] = "{"
        /\ path[i + 2] = "}"
        /\ (i + 2 = Len(path) \/ path[i + 3] = "/")}}

\* Lines 369-383: path when the name is a placeholder of the path, query
\* otherwise; then the isinstance chain, whose first test is the Path one.
param_in(p, path) ==
    IF p.default.k # "empty" /\ IsInstanceOfParamClass(p.default) THEN "path"
    ELSE IF p.name \in path_params(path) THEN "path"
    ELSE "query"

\* Lines 385-402: <<param_schema, example_value>> of one parameter.
param_schema(p) ==
    LET with_default(d) ==
            IF p.default.required THEN d
            ELSE [d EXCEPT !.keys = @ \cup {"default"}, !.default = <<p.default.value>>]
        of_field(r) ==
            IF p.default.k # "FieldInfo" THEN r
            ELSE <<with_default([r[1] EXCEPT !.keys = @ \cup {"description"},
                                             !.description = <<>>]),
                   p.default.example>>
    IN of_field(IF p.annotation # Empty THEN type_to_schema(p.annotation)
                ELSE <<SchemaDict({"type"}, <<"string">>, <<>>), None>>)

\* Line 412: no default, or a FieldInfo whose default is `...`.
param_required(p) ==
    p.default.k = "empty" \/ (p.default.k = "FieldInfo" /\ p.default.required)

\* _extract_param_schema: <<schema, example_input>>.  A parameter annotated
\* with a model makes the extractor return that model's schema at once.
extract_param_schema(route) ==
    LET func == route.func
        ps == SelectSeq(func.params, LAMBDA p : p.name \notin Reserved /\ ~p.var)
        models == SelectSeq(ps, LAMBDA p : p.annotation.k = "Model")
        in_query(schema) ==
            [schema EXCEPT !.properties = [i \in 1..Len(schema.properties) |->
                Prop(schema.properties[i].key,
                     [schema.properties[i].val EXCEPT
                         !.keys = @ \cup {"in"}, !.loc = "query"])]]
        req == SelectSeq(ps, param_required)
        \* rs[i] is <<param_schema, example_value>> of ps[i]
        of_params(rs) ==
            LET exs == SelectSeq([i \in 1..Len(ps) |-> [name |-> ps[i].name, r |-> rs[i]]],
                                 LAMBDA x : x.r[2] # None)
            IN <<[SchemaDict({"type", "properties", "required"}, <<"object">>, <<>>)
                     EXCEPT !.properties = [i \in 1..Len(ps) |->
                                Prop(ps[i].name,
                                     [rs[i][1] EXCEPT !.keys = @ \cup {"in"},
                                                      !.loc = param_in(ps[i], route.path)])],
                            !.required = [i \in 1..Len(req) |-> req[i].name]],
                 DictOf([i \in 1..Len(exs) |-> Item(exs[i].name, exs[i].r[2])])>>
    IN IF ~func.sig THEN <<GenericSchema(<<"Request parameters">>), None>>
       ELSE IF models # <<>>
       THEN <<in_query(enhance_schema_properties(model_json_schema(models[1].annotation))),
              field_examples(models[1].annotation)>>
       ELSE of_params([i \in 1..Len(ps) |-> param_schema(ps[i])])

\* _extract_response_model, strategy 5: the response_model of the first
\* route of app.routes whose endpoint is this handler.  (Strategies 1 to 4
\* look for a response_model attribute on the handler, in its closure and
\* on a router it carries; a plain handler has none of these.)
extract_response_model(route, rts) ==
    LET same == SelectSeq(rts, LAMBDA r : r.endpoint /\ SameEndpoint(r, route))
    IN IF same # <<>> THEN response_model(same[1]) ELSE T_None

\* _extract_output_schema: <<schema, example_output>>.
extract_output_schema(route, now, rts) ==
    LET func == route.func
        or_doc(d) == IF func.doc # <<>> THEN func.doc ELSE d
        with_doc(schema, d) ==
            IF "description" \in schema.keys THEN schema
            ELSE [schema EXCEPT !.keys = @ \cup {"description"}, !.description = d]
        of_dict(key_type, kr, vr) ==
            <<[SchemaDict({"type", "additionalProperties", "description"}, <<"object">>,
                          or_doc(<<"Dictionary with", key_type.name, "keys and">>
                                     \o DescriptionOr(vr[1], <<"values">>)))
                  EXCEPT !.additionalProperties = <<vr[1]>>],
              IF kr[2] # None /\ vr[2] # None
              THEN DictOf(<<Item(kr[2].a, vr[2])>>)
              ELSE EmptyDict>>
        of_model(schema, example) ==
            <<with_doc(schema, or_doc(<<schema.title, "response">>)), example>>
        of_other(r) ==
            <<IF func.doc # <<>> THEN with_doc(r[1], func.doc) ELSE r[1], r[2]>>
        of_type(model_type) ==
            IF model_type.k \in {"dict", "Dict"}
            THEN IF model_type.k = "Dict" /\ Len(model_type.args) = 2
                 THEN of_dict(model_type.args[1], type_to_schema(model_type.args[1]),
                              type_to_schema(model_type.args[2]))
                 ELSE <<OpenSchema(or_doc(<<"Dictionary response">>)),
                        DictOf(<<Item("example_key", V_str("example_value"))>>)>>
            ELSE IF model_type.k = "Model"
            THEN of_model(enhance_schema_properties(model_json_schema(model_type)),
                          create_example_from_model(model_type, now))
            ELSE of_other(type_to_schema(model_type))
        of_hints(rm) ==
            IF rm = T_None /\ func.return_annotation = Empty
            THEN <<GenericSchema(or_doc(<<"Response object">>)), None>>
            ELSE of_type(IF rm # T_None THEN rm ELSE func.return_annotation)
    IN IF ~func.sig THEN <<GenericSchema(<<"Response data">>), None>>
       ELSE of_hints(extract_response_model(route, rts))

\* pydantic validates the fields of ToolSchema(...) when it is constructed:
\* example_input: Optional[Dict[str, Any]] takes None or a dict and nothing
\* else; example_output: Optional[Any] takes anything.
Validates(tool) == tool.example_input.k \in {"None", "dict"}

\* The descriptor lines 121-131 build for a route with metadata `info`.
BuildTool(route, info, now, rts) ==
    LET tool(method, inp, out) ==
            ToolSchema(info.name, info.description, route.path, method,
                       inp[1], out[1], info.tags,
                       Or(inp[2], info.example_input),
                       Or(out[2], info.example_output))
    IN tool(Method(route),
            IF Method(route) \in BodyMethods
            THEN extract_body_schema(route)
            ELSE extract_param_schema(route),
            extract_output_schema(route, now, rts))

\* One iteration of `for route in self.app.routes`: the registry after it,
\* and whether an exception left the loop (and the scan) at this route.
ScanRoute(reg, route, now, rts) ==
    LET register(tool) ==
            IF ~Validates(tool) THEN [tools |-> reg, raised |-> TRUE]
            ELSE [tools |-> register_tool(reg, tool), raised |-> FALSE]
        found(info) ==
            IF ~info.set THEN [tools |-> reg, raised |-> FALSE]
            ELSE register(BuildTool(route, info, now, rts))
    IN IF SkipRoute(route) THEN [tools |-> reg, raised |-> FALSE]
       ELSE IF ~route.endpoint THEN [tools |-> reg, raised |-> TRUE]
       ELSE found(FindToolInfo(route.layers, 1))

\* The loop from route i on.
RECURSIVE ScanLoop(_, _, _, _)
ScanLoop(reg, rts, i, now) ==
    LET next(r) == IF r.raised THEN r ELSE ScanLoop(r.tools, rts, i + 1, now)
    IN IF i > Len(rts) THEN [tools |-> reg, raised |-> FALSE]
       ELSE next(ScanRoute(reg, rts[i], now, rts))

\* A scan that does not empty the dict before the loop.
scan_and_register_tools_noclear(bound, reg, rts, now) ==
    LET done(r) ==
            [tools |-> r.tools, ran |-> TRUE, raised |-> r.raised,
             ret |-> IF r.raised THEN "raised" ELSE "None"]
    IN IF ~bound
       THEN [tools |-> reg, ran |-> FALSE, raised |-> FALSE, ret |-> "None"]
       ELSE done(ScanLoop(reg, rts, 1, now))

\* A scan that empties the dict before it tests self.app.
scan_and_register_tools_clearfirst(bound, reg, rts, now) ==
    LET done(r) ==
            [tools |-> r.tools, ran |-> TRUE, raised |-> r.raised,
             ret |-> IF r.raised THEN "raised" ELSE "None"]
    IN IF ~bound
       THEN [tools |-> <<>>, ran |-> FALSE, raised |-> FALSE, ret |-> "None"]
       ELSE done(ScanLoop(<<>>, rts, 1, now))

\* A scan that adds what it finds to the list it had.
scan_and_register_tools_merge(bound, reg, rts, now) ==
    LET done(r) ==
            [tools |-> reg \o r.tools, ran |-> TRUE, raised |-> r.raised,
             ret |-> IF r.raised THEN "raised" ELSE "None"]
    IN IF ~bound
       THEN [tools |-> reg, ran |-> FALSE, raised |-> FALSE, ret |-> "None"]
       ELSE done(ScanLoop(<<>>, rts, 1, now))

\* scan_and_register_tools() as a whole: the registry it leaves, whether it
\* ran (the registry was bound), whether it raised, and what it returned.
scan_and_register_tools(bound, reg, rts, now) ==
    LET done(r) ==
            [tools |-> r.tools, ran |-> TRUE, raised |-> r.raised,
             ret |-> IF r.raised THEN "raised" ELSE "None"]
    IN IF ~bound
       THEN [tools |-> reg, ran |-> FALSE, raised |-> FALSE, ret |-> "None"]
       ELSE done(ScanLoop(<<>>, rts, 1, now))

----------------------------------------------------------------------------
(* The routes a host registers.  Those of the demo host are the routes of  *)
(* src/main.py; its capability names are shortened to a and b, and the     *)
(* placeholder {doc_id} to {i}.                                            *)

\* class TextExtractionRequest(BaseModel).  Its Config sets
\* json_schema_extra, which is not Config.schema_extra.
TextExtractionRequest ==
    ModelT("TextExtractionRequest",
           <<ModelField("text", T_str, TRUE, None, None),
             ModelField("max_tokens", OptionalT(T_int), FALSE, V_int("100"), None)>>,
           None, None)

\* class ExtractionResult(BaseModel)
ExtractionResult ==
    ModelT("ExtractionResult",
           <<ModelField("extracted_text", T_str, TRUE, None, None),
             ModelField("token_count", T_int, TRUE, None, None)>>,
           None, None)

\* A response model with a datetime field.
Listing ==
    ModelT("Listing",
           <<ModelField("count", T_int, TRUE, None, V_int("2")),
             ModelField("generated_at", T_datetime, TRUE, None, None)>>,
           None, None)

\* @app.get("/internal/stats"): no auto_tool.
R_stats ==
    Route(P_stats, TRUE, <<NoInfo>>, 0, <<"GET">>,
          Func("internal_stats", TRUE, <<"Internal endpoint">>, <<>>, Empty),
          NotDeclared)
\* @auto_tool("health_check") @app.get("/", response_model=Dict[str, Any])
R_health ==
    Route(P_root, TRUE, <<tool_info("a", None, None)>>, 0, <<"GET">>,
          Func("health_check", TRUE, <<"Check if the API is running correctly">>, <<>>, Empty),
          DictT(T_str, T_Any))
\* @auto_tool("get_document") @app.get("/document/{doc_id}"), here behind a
\* wrapper that does not copy _tool_info:
\* get_document(doc_id: str, include_metadata: bool = False) -> Dict[str, Any]
R_doc ==
    Route(P_doc, TRUE, <<NoInfo, tool_info("b", None, None)>>, 0, <<"GET">>,
          Func("get_document", TRUE, <<"Retrieve a document by its ID">>,
               <<Param("i", T_str, NoDefault),
                 Param("include_metadata", T_bool, Plain(V_bool("False")))>>,
               DictT(T_str, T_Any)),
          NotDeclared)
\* @auto_tool("text_extractor") @app.post("/extract", response_model=
\* ExtractionResult): extract_text(request: TextExtractionRequest) ->
\* ExtractionResult.  It declares the name R_health declares.
R_extract ==
    Route(P_extract, TRUE, <<tool_info("a", None, None)>>, 0, <<"POST">>,
          Func("extract_text", TRUE, <<"Extracts important information">>,
               <<Param("request", TextExtractionRequest, NoDefault)>>,
               ExtractionResult),
          ExtractionResult)
\* A model body and example_input=[...], a value that is no dict.  It
\* declares the name R_health declares.
R_badmeta ==
    Route(P_extract, TRUE, <<tool_info("a", ListOf(<<V_str("x")>>), None)>>, 0, <<"POST">>,
          Func("submit", TRUE, <<>>,
               <<Param("payload", TextExtractionRequest, NoDefault)>>,
               ExtractionResult),
          NotDeclared)
\* A handler inspect.signature cannot read; example_input={...} is given.
R_nosig ==
    Route(P_doc, TRUE, <<tool_info("b", DictOf(<<Item("i", V_str("7"))>>), None)>>, 0,
          <<"PUT", "GET">>,
          Func("opaque", FALSE, <<>>, <<>>, Empty),
          NotDeclared)
\* The listing route, the scan route and a route at /toolshed, each flagged.
R_all ==
    Route(P_tools_all, TRUE, <<tool_info("c", None, None)>>, 0, <<"GET">>,
          Func("list_tools", TRUE, <<>>, <<>>, Empty),
          Listing)
R_scan ==
    Route(P_tools_scan, TRUE, <<tool_info("b", None, None)>>, 0, <<"GET">>,
          Func("scan_tools", TRUE, <<"Manually trigger a scan for tools">>, <<>>, Empty),
          DictT(T_str, T_int))
R_shed ==
    Route(P_toolshed, TRUE, <<tool_info("c", None, None)>>, 0, <<"GET">>,
          Func("shed", TRUE, <<>>, <<Param("q", T_str, NoDefault)>>, T_dict),
          NotDeclared)
\* app.mount(...): a Mount has a path and no endpoint.
R_mount ==
    Route(P_static, FALSE, <<>>, 0, <<>>, Func("", TRUE, <<>>, <<>>, Empty), NotDeclared)

\* The hosts the model runs the registry in, each with the routes it defines.
Hosts == {"demo", "surface", "faulty"}

HostRoutes(h) ==
    IF h = "demo" THEN {R_stats, R_health, R_doc, R_extract}
    ELSE IF h = "surface" THEN {R_health, R_all, R_scan, R_shed}
    ELSE {R_health, R_nosig, R_badmeta, R_mount}

\* The descriptor a host hands to register_tool() itself.
Direct ==
    {ToolSchema("a", "direct", P_stats, "GET", Described("object", <<"direct">>), Described("object", <<"direct">>), <<>>, None, None)}

----------------------------------------------------------------------------
(* The registry driven call by call.  The host's own calls are made on    *)
(* the thread the event loop runs on, so none starts while a handler runs. *)

\* No list has been returned yet.
NoObs == [taken |-> FALSE, by |-> "none", val |-> <<>>, committed |-> <<>>, inflight |-> {}]

\* What the model remembers of the last call when it was a scan: whether it
\* ran, raised and what it returned, the names registered before it, and
\* whether the call before it was a scan too.  Any other call resets it.
\* No caller holds a list.
NoList == [taken |-> FALSE, object |-> values_list(<<>>), seen |-> <<>>]

NoCall == [op |-> "none", ran |-> FALSE, raised |-> FALSE, ret |-> "None", had |-> {}, again |-> FALSE]

\* No conversion has been made; no route has been followed.
NoConv == [done |-> FALSE, schema |-> AnySchema, example |-> None, placeholder |-> None]
NoTool == ToolSchema("", "", <<>>, "", AnySchema, AnySchema, <<>>, None, None)
NoDesc == [state |-> "none", tool |-> NoTool]

Init ==
    /\ host \in Hosts
    /\ app = FALSE
    /\ routes = <<>>
    /\ tools = <<>>
    /\ clock = 0
    /\ pc = [t \in Tasks |-> "idle"]
    /\ handler = [t \in Tasks |-> "none"]
    /\ idx = [t \in Tasks |-> 0]
    /\ loop = 0
    /\ last = NoCall
    /\ obs = NoObs
    /\ committed = <<>>
    /\ hint = T_None
    /\ conv = NoConv
    /\ subject = 0
    /\ step = "idle"
    /\ cur = 0
    /\ turn = 0
    /\ seed \in Seeds
    /\ held = NoList
    /\ desc = NoDesc

\* ToolRegistry.set_app(app)
set_app ==
    /\ loop = 0
    /\ ~app
    /\ app' = TRUE
    /\ last' = NoCall
    /\ obs' = NoObs
    /\ UNCHANGED <<host, routes, tools, clock, pc, handler, idx, loop, committed>>
    /\ UNCHANGED dvars

\* @app.get(...)/@app.post(...)/app.mount(...), with the auto_tool above it.
\* A host defines each of its routes once.
AddRoute(r) ==
    /\ loop = 0
    /\ Len(routes) < MaxRoutes
    /\ \A i \in 1..Len(routes) : routes[i] # r
    /\ routes' = Append(routes, r)
    /\ last' = NoCall
    /\ obs' = NoObs
    /\ UNCHANGED <<host, app, tools, clock, pc, handler, idx, loop, committed>>
    /\ UNCHANGED dvars

\* The host takes a route out of its route table.
RemoveRoute(i) ==
    /\ loop = 0
    /\ i \in 1..Len(routes)
    /\ routes' = SubSeq(routes, 1, i - 1) \o SubSeq(routes, i + 1, Len(routes))
    /\ last' = NoCall
    /\ obs' = NoObs
    /\ UNCHANGED <<host, app, tools, clock, pc, handler, idx, loop, committed>>
    /\ UNCHANGED dvars

\* tool_registry.register_tool(tool), called by the host.
Register(tool) ==
    /\ loop = 0
    /\ tools' = register_tool(tools, tool)
    /\ committed' = tools'
    /\ last' = NoCall
    /\ obs' = NoObs
    /\ UNCHANGED <<host, app, routes, clock, pc, handler, idx, loop>>
    /\ UNCHANGED dvars

\* tool_registry.scan_and_register_tools(), from its first line to its
\* return or to the exception that leaves it.
Scan ==
    LET returns(r) ==
            /\ tools' = r.tools
            /\ committed' = IF r.raised THEN committed ELSE r.tools
            /\ last' = [op |-> "scan", ran |-> r.ran, raised |-> r.raised, ret |-> r.ret,
                        had |-> Names(tools), again |-> last.op = "scan"]
    IN
    /\ returns(scan_and_register_tools(app, tools, routes, clock))
    /\ obs' = NoObs
    /\ UNCHANGED <<host, app, routes, clock, pc, handler, idx, loop>>
    /\ UNCHANGED dvars

\* A caller calls get_all_tools(), reads the list and keeps it.
Hold ==
    /\ held' = [taken |-> TRUE, object |-> values_list(tools),
                seen |-> Shown(values_list(tools), tools)]
    /\ last' = NoCall
    /\ obs' = NoObs
    /\ UNCHANGED <<host, app, routes, tools, clock, pc, handler, idx, loop, committed>>
    /\ UNCHANGED <<hint, conv, subject, step, cur, turn, desc, seed>>

\* Time passes.
Tick ==
    /\ clock < MaxClock
    /\ clock' = clock + 1
    /\ UNCHANGED <<host, app, routes, tools, pc, handler, idx, loop, last, obs, committed>>
    /\ UNCHANGED dvars

Next ==
    \/ set_app
    \/ \E r \in HostRoutes(host) : AddRoute(r)
    \/ \E i \in 1..MaxRoutes : RemoveRoute(i)
    \/ \E tool \in Direct : Register(tool)
    \/ Scan
    \/ Tick

Spec == Init /\ [][Next]_vars

\* The operations that write the registry, with callers that keep the
\* lists they were given.
NextHold ==
    \/ set_app
    \/ \E r \in HostRoutes(host) : AddRoute(r)
    \/ \E tool \in Direct : Register(tool)
    \/ Scan
    \/ Hold

SpecHold == Init /\ [][NextHold]_vars

----------------------------------------------------------------------------
(* The handlers, run as tasks of the event loop.  Each is an `async def`   *)
(* with no `await` in it: once the loop has entered it, the loop runs      *)
(* nothing else until it returns or raises.                                *)

\* The router's get_all_tools (GET /tools/all), scan_tools (GET /tools/scan)
\* and refresh_tools (POST /tools/refresh) scan and then list, and so does
\* lifespan (startup), which makes the same two calls; get_all_tools of
\* src/main.py (its own GET /tools/all) lists only.
Scanning == {"bind_app_tools.get_all_tools", "scan_tools", "refresh_tools"}
Handlers == Scanning \cup {"get_all_tools"}

\* A pre-emptive scheduler: any task may take a step at any time.
Runnable_preemptive(t) == TRUE

\* The event loop runs one task at a time and takes up another only when
\* the running one has returned.
Runnable(t) == loop \in {0, t}

InitLoop == Init

\* A request arrives (or startup begins): a task for its handler is created.
Request(t, h) ==
    /\ pc[t] = "idle"
    /\ pc' = [pc EXCEPT ![t] = "ready"]
    /\ handler' = [handler EXCEPT ![t] = h]
    /\ obs' = NoObs
    /\ UNCHANGED <<host, app, routes, tools, clock, idx, loop, last, committed>>
    /\ UNCHANGED dvars

\* scan_and_register_tools, lines 55-62: return at once when self.app is not
\* set, else empty the dict.
ScanBegin(t) ==
    /\ pc[t] = "ready"
    /\ handler[t] \in Scanning
    /\ Runnable(t)
    /\ loop' = t
    /\ IF ~app
       THEN /\ pc' = [pc EXCEPT ![t] = "list"]
            /\ UNCHANGED <<tools, idx>>
       ELSE /\ pc' = [pc EXCEPT ![t] = "loop"]
            /\ tools' = <<>>
            /\ idx' = [idx EXCEPT ![t] = 1]
    /\ obs' = NoObs
    /\ UNCHANGED <<host, app, routes, clock, handler, last, committed>>
    /\ UNCHANGED dvars

\* One iteration of the loop of lines 68-133.  An exception leaves the scan
\* and the handler, and the task ends.
ScanStep(t) ==
    /\ pc[t] = "loop"
    /\ idx[t] <= Len(routes)
    /\ Runnable(t)
    /\ LET after(r) ==
               IF r.raised
               THEN /\ pc' = [pc EXCEPT ![t] = "idle"]
                    /\ idx' = [idx EXCEPT ![t] = 0]
                    /\ loop' = 0
                    /\ UNCHANGED <<tools, committed>>
               ELSE /\ tools' = r.tools
                    /\ idx' = [idx EXCEPT ![t] = idx[t] + 1]
                    /\ loop' = t
                    /\ UNCHANGED <<pc, committed>>
       IN after(ScanRoute(tools, routes[idx[t]], clock, routes))
    /\ obs' = NoObs
    /\ UNCHANGED <<host, app, routes, clock, handler, last>>
    /\ UNCHANGED dvars

\* The loop is over: the scan returns to the handler.
ScanEnd(t) ==
    /\ pc[t] = "loop"
    /\ idx[t] > Len(routes)
    /\ Runnable(t)
    /\ pc' = [pc EXCEPT ![t] = "list"]
    /\ idx' = [idx EXCEPT ![t] = 0]
    /\ loop' = t
    /\ committed' = tools
    /\ obs' = NoObs
    /\ UNCHANGED <<host, app, routes, tools, clock, handler, last>>
    /\ UNCHANGED dvars

\* The handler calls get_all_tools() and returns its response.
ListStep(t) ==
    /\ \/ pc[t] = "list"
       \/ pc[t] = "ready" /\ handler[t] \notin Scanning
    /\ Runnable(t)
    /\ obs' = [taken |-> TRUE, by |-> handler[t], val |-> get_all_tools(tools),
               committed |-> committed,
               inflight |-> {u \in Tasks \ {t} : pc[u] # "idle" /\ handler[u] \in Scanning}]
    /\ pc' = [pc EXCEPT ![t] = "idle"]
    /\ loop' = 0
    /\ UNCHANGED <<host, app, routes, tools, clock, handler, idx, last, committed>>
    /\ UNCHANGED dvars

NextLoop ==
    \/ set_app
    \/ \E r \in HostRoutes(host) : AddRoute(r)
    \/ \E tool \in Direct : Register(tool)
    \/ \E t \in Tasks, h \in Handlers : Request(t, h)
    \/ \E t \in Tasks : ScanBegin(t)
    \/ \E t \in Tasks : ScanStep(t)
    \/ \E t \in Tasks : ScanEnd(t)
    \/ \E t \in Tasks : ListStep(t)

SpecLoop == InitLoop /\ [][NextLoop]_vars

----------------------------------------------------------------------------
(* One iteration of the scan followed hop by hop, and the conversion of a  *)
(* type hint on its own.  The iteration is that of lines 68-133: the skip  *)
(* test and route.endpoint, the search for _tool_info along __wrapped__,   *)
(* the `while hasattr(current_func, "__wrapped__")` walk each extractor    *)
(* begins with, and the assembly of the descriptor.                        *)

MaxDepth == 2
MaxTable == 2

\* More handlers, for the cases of the derivation rules.

\* A response model with fields of kinds the placeholder rule has no case for.
Report ==
    ModelT("Report",
           <<ModelField("title", T_str, TRUE, None, None),
             ModelField("labels", DictT(T_str, T_str), TRUE, None, None),
             ModelField("color", T_Enum, TRUE, None, None),
             ModelField("note", OptionalT(T_str), FALSE, None, None)>>,
           None, None)

\* get_document of src/main.py with examples on the decorator:
\* @auto_tool("get_document", example_input={...}, example_output={...}).
S_doc_ex ==
    [R_doc EXCEPT !.layers =
        <<tool_info("b", DictOf(<<Item("i", V_str("doc-1"))>>),
                    DictOf(<<Item("id", V_str("doc-1"))>>))>>]
\* health_check with examples on the decorator and no response_model.
S_health_ex ==
    [R_health EXCEPT !.layers =
        <<tool_info("a", DictOf(<<Item("verbose", V_bool("True"))>>), V_str("ok"))>>,
                     !.declared = NotDeclared]
\* extract_text with its parameter named payload.
S_submit ==
    [R_extract EXCEPT !.func.name = "submit_text",
                      !.func.params = <<Param("payload", TextExtractionRequest, NoDefault)>>]
\* PUT with a body that is no model.
S_put ==
    Route(P_doc, TRUE, <<tool_info("c", None, None)>>, 0, <<"PUT">>,
          Func("put_document", TRUE, <<>>,
               <<Param("i", T_str, NoDefault), Param("body", T_dict, NoDefault)>>,
               T_bool),
          NotDeclared)
\* A handler with no return annotation, no response_model and no docstring.
S_bare ==
    Route(P_stats, TRUE, <<tool_info("c", None, None)>>, 0, <<"GET">>,
          Func("bare", TRUE, <<>>, <<Param("limit", T_int, Plain(V_int("10")))>>, Empty),
          NotDeclared)
\* response_model=Report on a handler annotated -> Dict[str, Any].
S_report ==
    Route(P_stats, TRUE, <<tool_info("b", None, None)>>, 0, <<"GET">>,
          Func("report", TRUE, <<"Build the report">>, <<>>, DictT(T_str, T_Any)),
          Report)
\* A handler annotated -> List[ExtractionResult], no response_model.
S_batch ==
    Route(P_extract, TRUE, <<tool_info("c", None, None)>>, 0, <<"GET">>,
          Func("batch", TRUE, <<>>, <<Param("since", T_datetime, NoDefault)>>,
               ListT(ExtractionResult)),
          NotDeclared)
\* One handler under two route decorators, each with its own response_model.
S_twice_1 ==
    Route(P_root, TRUE, <<tool_info("b", None, None)>>, 0, <<"GET">>,
          Func("twice", TRUE, <<>>, <<>>, Empty), ExtractionResult)
S_twice_2 ==
    Route(P_stats, TRUE, <<tool_info("b", None, None)>>, 0, <<"GET">>,
          Func("twice", TRUE, <<>>, <<>>, Empty), Listing)
\* A handler whose parameters declare their locations:
\* token: str = Header(None), session: str = Cookie(None), q: str = Query("x").
S_header ==
    Route(P_stats, TRUE, <<tool_info("c", None, None)>>, 0, <<"GET">>,
          Func("whoami", TRUE, <<>>,
               <<Param("token", T_str, Default("FieldInfo", "Header", FALSE, None, None)),
                 Param("session", T_str, Default("FieldInfo", "Cookie", FALSE, None, None)),
                 Param("q", T_str, Default("FieldInfo", "Query", FALSE, V_str("x"), None))>>,
               T_dict),
          NotDeclared)
\* GET /document/{doc_id} with a model among the parameters:
\* search(i: str, filters: TextExtractionRequest).
S_search ==
    Route(P_doc, TRUE, <<tool_info("c", None, None)>>, 0, <<"GET">>,
          Func("search", TRUE, <<>>,
               <<Param("i", T_str, NoDefault),
                 Param("filters", TextExtractionRequest, NoDefault)>>,
               T_dict),
          NotDeclared)
\* Wrapping chains that come back on themselves: a handler that is its own
\* __wrapped__, without and with _tool_info, and two layers that wrap each
\* other, without _tool_info and with it on the second.
S_self ==
    Route(P_stats, TRUE, <<NoInfo>>, 1, <<"GET">>,
          Func("self_wrapped", TRUE, <<>>, <<>>, Empty), NotDeclared)
S_self_tool ==
    Route(P_stats, TRUE, <<tool_info("c", None, None)>>, 1, <<"GET">>,
          Func("self_wrapped_tool", TRUE, <<>>, <<>>, Empty), NotDeclared)
S_pair ==
    Route(P_stats, TRUE, <<NoInfo, NoInfo>>, 1, <<"GET">>,
          Func("pair", TRUE, <<>>, <<>>, Empty), NotDeclared)
S_pair_tool ==
    Route(P_stats, TRUE, <<NoInfo, tool_info("c", None, None)>>, 1, <<"POST">>,
          Func("pair_tool", TRUE, <<>>, <<>>, Empty), NotDeclared)

Samples ==
    {R_stats, R_health, R_doc, R_extract, R_badmeta, R_nosig, R_all, R_scan,
     R_shed, R_mount, S_doc_ex, S_health_ex, S_submit, S_put, S_bare, S_report,
     S_batch, S_twice_1, S_twice_2, S_header, S_search, S_self, S_self_tool, S_pair, S_pair_tool}

\* The route tables an iteration is followed in.
RECURSIVE Tables(_)
Tables(n) ==
    IF n = 0 THEN {<<>>}
    ELSE Tables(n - 1) \cup
         {Append(t, r) : t \in {u \in Tables(n - 1) : Len(u) = n - 1},
                         r \in Samples}

\* The type hints conversion starts from.
BaseHints ==
    {T_str, T_int, T_float, T_bool, T_list, T_dict, T_None, T_datetime, T_Any,
     T_Enum, ExtractionResult, TextExtractionRequest, Report}

RECURSIVE Depth(_)
Depth(h) ==
    IF h.args = <<>> THEN 0
    ELSE 1 + Max({Depth(h.args[i]) : i \in 1..Len(h.args)})

\* The hints typing builds around a hint: List[h], Optional[h], Dict[K, h]
\* and, for a hint that is no Union, Union[h, u].  typing stores None as
\* NoneType among the arguments, and Optional[None] is NoneType itself.
Around(h) ==
    LET arg == IF h = T_None THEN T_NoneType ELSE h IN
    {ListT(arg), DictT(T_str, arg), DictT(T_int, arg)}
    \cup (IF h.k \in {"None", "NoneType"} THEN {} ELSE {OptionalT(h)})
    \cup (IF h.k \in {"Union", "None", "NoneType"} THEN {}
          ELSE {UnionT(<<h, u>>) : u \in {T_str, T_int, T_NoneType, ExtractionResult} \ {h}})

InitDerive ==
    /\ host = "demo"
    /\ app = TRUE
    /\ tools = <<>>
    /\ clock = 0
    /\ pc = [t \in Tasks |-> "idle"]
    /\ handler = [t \in Tasks |-> "none"]
    /\ idx = [t \in Tasks |-> 0]
    /\ loop = 0
    /\ last = NoCall
    /\ obs = NoObs
    /\ committed = <<>>
    /\ conv = NoConv
    /\ cur = 0
    /\ turn = 0
    /\ seed \in Seeds
    /\ held = NoList
    /\ desc = NoDesc
    /\ \/ /\ step = "convert"
          /\ hint \in BaseHints
          /\ routes = <<>>
          /\ subject = 0
       \/ /\ step = "enter"
          /\ hint = T_None
          /\ routes \in Tables(MaxTable) \ {<<>>}
          /\ subject \in 1..Len(routes)

\* The annotation is written around the hint.
Annotate(h) ==
    /\ step = "convert"
    /\ Depth(hint) < MaxDepth
    /\ h \in Around(hint)
    /\ hint' = h
    /\ conv' = NoConv
    /\ UNCHANGED <<host, app, routes, tools, clock, pc, handler, idx, loop, last, obs, committed>>
    /\ UNCHANGED <<subject, step, cur, turn, desc, seed, held>>

\* _type_to_schema(hint) and _generate_field_example(hint)
Convert ==
    /\ step = "convert"
    /\ ~conv.done
    /\ LET converted(r) ==
               conv' = [done |-> TRUE, schema |-> r[1], example |-> r[2],
                        placeholder |-> generate_field_example(hint, clock)]
       IN converted(type_to_schema(hint))
    /\ UNCHANGED <<host, app, routes, tools, clock, pc, handler, idx, loop, last, obs, committed>>
    /\ UNCHANGED <<hint, subject, step, cur, turn, desc, seed, held>>

\* current_func.__wrapped__ at layer k: the next layer, for the last layer
\* the one it points back to, 0 when it has no __wrapped__.
Wrapped(route, k) ==
    IF k < Len(route.layers) THEN k + 1 ELSE route.back

\* Lines 70-76: the skip test, then route.endpoint.
Enter ==
    /\ step = "enter"
    /\ LET route == routes[subject] IN
       IF SkipRoute(route)
       THEN step' = "done" /\ desc' = [state |-> "skipped", tool |-> NoTool] /\ cur' = 0
       ELSE IF ~route.endpoint
       THEN step' = "done" /\ desc' = [state |-> "raised", tool |-> NoTool] /\ cur' = 0
       ELSE step' = "search" /\ cur' = 1 /\ desc' = desc
    /\ turn' = 0
    /\ UNCHANGED <<host, app, routes, tools, clock, pc, handler, idx, loop, last, obs, committed>>
    /\ UNCHANGED <<hint, conv, subject, seed, held>>

\* Lines 84-94: one turn of `while current_func`.
FindStep ==
    /\ step = "search"
    /\ LET route == routes[subject]
           next_func == Wrapped(route, cur)
       IN IF route.layers[cur].set
          THEN step' = "unwrap_input" /\ cur' = 1 /\ turn' = 0 /\ desc' = desc
          ELSE IF next_func = 0 \/ next_func = cur
          THEN /\ step' = "done" /\ cur' = 0 /\ turn' = 0
               /\ desc' = [state |-> "no tool", tool |-> NoTool]
          ELSE step' = step /\ cur' = next_func /\ turn' = 1 - turn /\ desc' = desc
    /\ UNCHANGED <<host, app, routes, tools, clock, pc, handler, idx, loop, last, obs, committed>>
    /\ UNCHANGED <<hint, conv, subject, seed, held>>

\* Lines 149-150, 315-316 and 428-429: one turn of
\* `while hasattr(current_func, "__wrapped__")`, in the input extractor and
\* then in the output extractor.
UnwrapStep ==
    /\ step \in {"unwrap_input", "unwrap_output"}
    /\ LET next_func == Wrapped(routes[subject], cur)
       IN IF next_func = 0
          THEN /\ step' = IF step = "unwrap_input" THEN "unwrap_output" ELSE "build"
               /\ cur' = 1
               /\ turn' = 0
          ELSE /\ step' = step
               /\ cur' = next_func
               /\ turn' = 1 - turn
    /\ UNCHANGED <<host, app, routes, tools, clock, pc, handler, idx, loop, last, obs, committed>>
    /\ UNCHANGED <<hint, conv, subject, desc, seed, held>>

\* Lines 100-133: the descriptor of the route, or the exception that
\* ToolSchema(...) raises.
Describe ==
    /\ step = "build"
    /\ LET described(tool) ==
               desc' = IF Validates(tool) THEN [state |-> "built", tool |-> tool]
                       ELSE [state |-> "raised", tool |-> NoTool]
       IN described(BuildTool(routes[subject],
                              FindToolInfo(routes[subject].layers, 1), clock, routes))
    /\ step' = "done"
    /\ cur' = 0
    /\ turn' = 0
    /\ UNCHANGED <<host, app, routes, tools, clock, pc, handler, idx, loop, last, obs, committed>>
    /\ UNCHANGED <<hint, conv, subject, seed, held>>

NextDerive ==
    \/ \E h \in Around(hint) : Annotate(h)
    \/ Convert
    \/ Enter
    \/ FindStep
    \/ UnwrapStep
    \/ Describe

SpecDerive == InitDerive /\ [][NextDerive]_vars

\* The interpreter goes on with the iteration it is in.
SpecDeriveFair ==
    /\ SpecDerive
    /\ WF_vars(Enter)
    /\ WF_vars(FindStep)
    /\ WF_vars(UnwrapStep)
    /\ WF_vars(Describe)

----------------------------------------------------------------------------
(* What the claims speak of.                                               *)

\* The handler of the route carries capability metadata on some layer.
HasMeta(route) == \E k \in 1..Len(route.layers) : route.layers[k].set

\* The metadata the scan is to find: that of the outermost layer that has it.
MetaOf(route) ==
    LET k == CHOOSE j \in 1..Len(route.layers) :
                 /\ route.layers[j].set
                 /\ \A m \in 1..(j - 1) : ~route.layers[m].set
    IN route.layers[k]

\* A scan of a bound registry has just completed (normally or not), and the
\* route table is as the scan read it.
Scanned == last.op = "scan" /\ last.ran

\* The ticks of the datetime.now() strings in a value.
RECURSIVE Times(_)
Times(v) ==
    (IF v.ts >= 0 THEN {v.ts} ELSE {}) \cup
    UNION {IF v.k = "dict" THEN Times(v.e[i].val) ELSE Times(v.e[i]) : i \in 1..Len(v.e)}

\* A value with the time taken out of its datetime.now() strings.
RECURSIVE EraseTime(_)
EraseTime(v) ==
    [v EXCEPT !.ts = -1,
              !.e = [i \in 1..Len(v.e) |->
                        IF v.k = "dict" THEN Item(v.e[i].key, EraseTime(v.e[i].val))
                        ELSE EraseTime(v.e[i])]]

\* Two descriptors agree in everything but the time an example was made at.
SameButTime(d, e) ==
    /\ [d EXCEPT !.example_output = None] = [e EXCEPT !.example_output = None]
    /\ EraseTime(d.example_output) = EraseTime(e.example_output)

(* C1: once a scan of a bound registry has completed, every descriptor in  *)
(* the registry is one that scan built from a route of the table, and no   *)
(* name registered before the scan that no route declares is left.         *)
C1_ScanReplaces ==
    Scanned =>
        /\ \A k \in 1..Len(tools) :
               \E i \in 1..Len(routes) :
                   /\ HasMeta(routes[i])
                   /\ \E now \in 0..clock :
                          tools[k] = BuildTool(routes[i], MetaOf(routes[i]), now, routes)
        /\ \A n \in last.had :
               (\A i \in 1..Len(routes) :
                    ~(HasMeta(routes[i]) /\ MetaOf(routes[i]).name = n))
               => n \notin Names(tools)

\* A scan has completed that dropped a name registered before it.
C1_Witness ==
    /\ Scanned
    /\ tools # <<>>
    /\ \E n \in last.had : n \notin Names(tools)

(* C2: after a scan no descriptor returned by get_all_tools() belongs to a *)
(* route without capability metadata; and with one unflagged route next to *)
(* two flagged routes of distinct names, as in src/main.py, get_all_tools()*)
(* returns exactly the two descriptors.                                    *)
C2_UnflaggedAbsent ==
    Scanned =>
        /\ \A i \in 1..Len(routes) :
               (/\ ~HasMeta(routes[i])
                /\ \A j \in 1..Len(routes) :
                       HasMeta(routes[j]) => routes[j].path # routes[i].path)
               => \A k \in 1..Len(get_all_tools(tools)) :
                      get_all_tools(tools)[k].endpoint # routes[i].path
        /\ \A k \in 1..Len(get_all_tools(tools)) :
               get_all_tools(tools)[k].name # ""
        /\ (/\ host = "demo"
            /\ Len(routes) = 3
            /\ Cardinality({i \in 1..3 : routes[i] = R_stats}) = 1
            /\ Cardinality({MetaOf(routes[i]).name : i \in {j \in 1..3 : HasMeta(routes[j])}}) = 2)
           => /\ Len(get_all_tools(tools)) = 2
              /\ Names(get_all_tools(tools)) = {"a", "b"}

\* The scenario: the unflagged route between two flagged ones, scanned.
C2_Witness ==
    /\ Scanned
    /\ routes = <<R_health, R_stats, R_doc>>
    /\ Len(get_all_tools(tools)) = 2

(* C9: a scan of a registry that is not bound raises nothing and leaves    *)
(* the dict as it was.                                                     *)
C9_UnboundNoOp ==
    [][(Scan /\ ~app) => (tools' = tools /\ ~last'.raised /\ ~last'.ran)]_vars

\* An unbound scan has returned with descriptors of register_tool() in place.
C9_Witness ==
    /\ last.op = "scan"
    /\ ~last.ran
    /\ tools # <<>>

\* The routes of the table that declare the name n and that the scan is to
\* look at (it passes over the routes under /tools save /tools/all).
Declaring(n) ==
    {i \in 1..Len(routes) :
        /\ HasMeta(routes[i])
        /\ MetaOf(routes[i]).name = n
        /\ ~(startswith(routes[i].path, P_tools) /\ routes[i].path # P_tools_all)}


(* C3: after a scan, a route with capability metadata has no descriptor at *)
(* its path when its path starts with /tools and is not /tools/all, and    *)
(* every other route with capability metadata has a descriptor under its   *)
(* name.                                                                   *)
C3_SkipOnlySurface ==
    Scanned =>
        \A i \in 1..Len(routes) :
            HasMeta(routes[i]) =>
                IF startswith(routes[i].path, P_tools) /\ routes[i].path # P_tools_all
                THEN \A k \in 1..Len(tools) : tools[k].endpoint # routes[i].path
                ELSE MetaOf(routes[i]).name \in Names(tools)

(* C4: after a scan, a name that two or more routes declare has exactly    *)
(* one descriptor, and it is the one built from the last of those routes.  *)
C4_LastWins ==
    Scanned =>
        \A n \in {"a", "b", "c"} :
            Cardinality(Declaring(n)) >= 2 =>
                /\ Cardinality({k \in 1..Len(tools) : tools[k].name = n}) = 1
                /\ \E k \in 1..Len(tools) :
                       /\ tools[k].name = n
                       /\ tools[k].endpoint = routes[Max(Declaring(n))].path
                       /\ tools[k].method = Method(routes[Max(Declaring(n))])

(* C5, as claimed: a scan that follows a scan, with the route table        *)
(* unchanged in between, leaves the registry exactly as the first left it. *)
C5_Idempotent ==
    [][(last.op = "scan" /\ Scan) => tools' = tools]_vars

(* C5, amended: such a scan leaves the same names in the same order, and   *)
(* each descriptor as it was but for the time in an example made from      *)
(* datetime.now().                                                         *)
C5_IdempotentButTime ==
    [][(last.op = "scan" /\ Scan) =>
          /\ Len(tools') = Len(tools)
          /\ \A k \in 1..Len(tools) : SameButTime(tools'[k], tools[k])]_vars

\* Two scans in a row have run, the second at a later time than the first,
\* and the registry holds a descriptor whose example has that later time.
C5_Witness ==
    /\ Scanned
    /\ last.again
    /\ clock > 0
    /\ \E k \in 1..Len(tools) : clock \in Times(tools[k].example_output)

(* C8: a scan of a bound registry never ends in an exception; every route  *)
(* with capability metadata that it is to look at has a descriptor under   *)
(* its name, and a route whose derivation failed has the generic schema.   *)
C8_FailureIsolated ==
    Scanned =>
        /\ ~last.raised
        /\ \A n \in {"a", "b", "c"} :
               Declaring(n) # {} =>
                   \E k \in 1..Len(tools) :
                       /\ tools[k].name = n
                       /\ ~routes[Max(Declaring(n))].func.sig
                          => tools[k].output_schema = GenericSchema(<<"Response data">>)

(* C10: the caller of a scan of an unbound registry gets something else    *)
(* than the caller of a scan that ran and found no capability.             *)
C10_UnboundSignalled ==
    (last.op = "scan" /\ ~last.ran) =>
        last.ret # scan_and_register_tools(TRUE, <<>>, <<>>, clock).ret

\* The registry a scan of the table builds when no route stops it: a route
\* that raises is passed over and the loop goes on.
RECURSIVE CompleteScan(_, _, _)
CompleteScan(reg, rts, i) ==
    IF i > Len(rts) THEN reg
    ELSE CompleteScan(ScanRoute(reg, rts[i], clock, rts).tools, rts, i + 1)

(* C6: a list get_all_tools() returns is a complete registry: the one that *)
(* stood before the scan (as the last scan that ran to its end or the last *)
(* register_tool() left it) or the one a scan of the whole table builds,   *)
(* never what a scan that emptied the dict left behind half-way.           *)
C6_NoTornRead ==
    obs.taken =>
        \/ obs.val = obs.committed
        \/ obs.val = CompleteScan(<<>>, routes, 1)

(* C7: at most one scan is between emptying the dict and the end of its    *)
(* loop.                                                                   *)
C7_OneScanAtATime == Cardinality({t \in Tasks : pc[t] = "loop"}) <= 1

\* A scan is in its loop while the request of another scan waits.
C7_Witness ==
    \E t \in Tasks, u \in Tasks :
        /\ t # u
        /\ pc[t] = "loop"
        /\ idx[t] > 1
        /\ pc[u] = "ready"
        /\ handler[u] \in Scanning

\* The routes of the table whose descriptor is tools[k]: they declare its
\* name and stand at its endpoint.
RoutesOf(k) ==
    {i \in 1..Len(routes) :
        /\ HasMeta(routes[i])
        /\ MetaOf(routes[i]).name = tools[k].name
        /\ routes[i].path = tools[k].endpoint
        /\ Method(routes[i]) = tools[k].method}

(* C11: every descriptor in the registry has an input schema and an output *)
(* schema that are schema dicts with content, the input schema of type     *)
(* object; and the descriptor of a route whose handler the extractors      *)
(* could not inspect has the generic object schema {"type": "object",      *)
(* "description": ...} in both places.                                     *)
C11_SchemasPresent ==
    \A k \in 1..Len(tools) :
        /\ tools[k].input_schema.keys # {}
        /\ tools[k].output_schema.keys # {}
        /\ tools[k].input_schema.type = <<"object">>
        /\ (Scanned /\ RoutesOf(k) # {} /\ \A i \in RoutesOf(k) : ~routes[i].func.sig)
           => /\ tools[k].input_schema \in
                     {GenericSchema(<<"Request body">>), GenericSchema(<<"Request parameters">>)}
              /\ tools[k].input_schema.keys = {"type", "description"}
              /\ tools[k].output_schema = GenericSchema(<<"Response data">>)
              /\ tools[k].output_schema.keys = {"type", "description"}

\* A scan has registered the descriptor of a route whose derivation failed.
C11_Witness ==
    /\ Scanned
    /\ \E k \in 1..Len(tools) :
           /\ RoutesOf(k) # {}
           /\ \A i \in RoutesOf(k) : ~routes[i].func.sig
           /\ tools[k].output_schema.type = <<"object">>

\* The iteration followed has built the descriptor of its route.
Built == step = "done" /\ desc.state = "built"

\* The type the output schema of a route is to be derived from: the declared
\* response_model, else the return annotation of the handler.
OutputType(route) ==
    IF route.declared \notin {NotDeclared, T_None} THEN route.declared
    ELSE route.func.return_annotation

\* No parameter of the handler, and no field of a model it takes or returns,
\* declares an example of its own.
NoDeclaredExample(h) ==
    /\ h.schema_extra = None
    /\ h.doc_example = None
    /\ \A i \in 1..Len(h.fields) : h.fields[i].example = None

NoInputExample(route) ==
    \A i \in 1..Len(route.func.params) :
        /\ route.func.params[i].default.example = None
        /\ NoDeclaredExample(route.func.params[i].annotation)

(* C12: when the metadata of a capability gives example_input (or          *)
(* example_output) and no parameter or field declares an example of its    *)
(* own, the descriptor carries the example of the metadata.                *)
C12_MetadataExampleUsed ==
    Built =>
        LET route == routes[subject]
            info == MetaOf(route)
        IN /\ (info.example_input # None /\ NoInputExample(route))
              => desc.tool.example_input = info.example_input
           /\ (info.example_output # None /\ NoDeclaredExample(OutputType(route)))
              => desc.tool.example_output = info.example_output

\* The JSON type names a value answers to.
JsonTypes(v) ==
    CASE v.k = "None" -> {"null"}
      [] v.k = "str" -> {"string"}
      [] v.k = "int" -> {"integer", "number"}
      [] v.k = "float" -> {"number"}
      [] v.k = "bool" -> {"boolean"}
      [] v.k = "list" -> {"array"}
      [] OTHER -> {"object"}

\* The value is an instance of the schema: its kind is one the schema's
\* "type" names; a list has items of the item schema; a dict has every
\* required key, no key that "properties" does not declare (unless the
\* schema has additionalProperties), and under each key a value of the
\* property's schema; under oneOf/anyOf it is an instance of an alternative.
RECURSIVE Conforms(_, _)
Conforms(v, schema) ==
    /\ "type" \in schema.keys =>
           \E i \in 1..Len(schema.type) : schema.type[i] \in JsonTypes(v)
    /\ ({"oneOf", "anyOf"} \cap schema.keys # {}) =>
           \E i \in 1..Len(schema.of) : Conforms(v, schema.of[i])
    /\ (v.k = "list" /\ "items" \in schema.keys) =>
           \A i \in 1..Len(v.e) : Conforms(v.e[i], schema.items[1])
    /\ (v.k = "dict" /\ "required" \in schema.keys) =>
           \A i \in 1..Len(schema.required) :
               \E j \in 1..Len(v.e) : v.e[j].key = schema.required[i]
    /\ (v.k = "dict" /\ "properties" \in schema.keys) =>
           \A j \in 1..Len(v.e) :
               \/ \E i \in 1..Len(schema.properties) :
                      /\ schema.properties[i].key = v.e[j].key
                      /\ Conforms(v.e[j].val, schema.properties[i].val)
               \/ /\ "additionalProperties" \in schema.keys
                  /\ \A i \in 1..Len(schema.properties) :
                         schema.properties[i].key # v.e[j].key
    /\ (v.k = "dict" /\ "additionalProperties" \in schema.keys) =>
           \A j \in 1..Len(v.e) :
               (\A i \in 1..Len(schema.properties) : schema.properties[i].key # v.e[j].key)
               => Conforms(v.e[j].val, schema.additionalProperties[1])

(* C13: an example the engine makes up is an instance of the schema it is  *)
(* returned with: the example of _type_to_schema for a type hint, and the  *)
(* examples of a descriptor that are not those of the metadata.            *)
C13_ExamplesConform ==
    /\ (conv.done /\ conv.example # None) => Conforms(conv.example, conv.schema)
    /\ Built =>
           LET info == MetaOf(routes[subject]) IN
           /\ desc.tool.example_input \notin {None, info.example_input}
              => Conforms(desc.tool.example_input, desc.tool.input_schema)
           /\ desc.tool.example_output \notin {None, info.example_output}
              => Conforms(desc.tool.example_output, desc.tool.output_schema)

\* The parameters of the handler that are annotated with a model.
ModelParams(route) ==
    SelectSeq(route.func.params, LAMBDA p : ~p.var /\ p.annotation.k = "Model")

\* The schema is the object schema of model m: a property per field, and
\* in "required" exactly the fields without a default.
ObjectSchemaOf(schema, m) ==
    /\ schema.type = <<"object">>
    /\ "properties" \in schema.keys
    /\ {schema.properties[i].key : i \in 1..Len(schema.properties)}
           = {m.fields[i].name : i \in 1..Len(m.fields)}
    /\ {schema.required[i] : i \in 1..Len(schema.required)}
           = {m.fields[i].name : i \in {j \in 1..Len(m.fields) : m.fields[j].required}}

(* C14: the descriptor of a POST/PUT/PATCH route whose handler takes a     *)
(* model has that model's object schema as input schema, whatever the      *)
(* parameter is called, and the object schema of the returned model as     *)
(* output schema.                                                          *)
C14_BodyModelSchema ==
    Built =>
        LET route == routes[subject] IN
        (Method(route) \in BodyMethods /\ route.func.sig /\ ModelParams(route) # <<>>) =>
            /\ ObjectSchemaOf(desc.tool.input_schema, ModelParams(route)[1].annotation)
            /\ OutputType(route).k = "Model"
               => ObjectSchemaOf(desc.tool.output_schema, OutputType(route))

\* The parameter declares a default value.
HasDefault(p) == ~param_required(p)

\* The property of the schema under a key (the key is among them).
PropertyOf(schema, key) ==
    schema.properties[CHOOSE i \in 1..Len(schema.properties) :
                          schema.properties[i].key = key].val

(* C15: in the descriptor of a GET/DELETE route every parameter of the     *)
(* handler is a property of the input schema, tagged "path" when its name  *)
(* is a placeholder of the path and "query" otherwise, listed as required  *)
(* exactly when it has no default, and carrying its default under          *)
(* "default" when it has one.                                              *)
C15_ParamSchema ==
    Built =>
        LET route == routes[subject]
            schema == desc.tool.input_schema
            ps == SelectSeq(route.func.params, LAMBDA p : p.name \notin Reserved /\ ~p.var)
        IN (Method(route) \notin BodyMethods /\ route.func.sig /\ ModelParams(route) = <<>>) =>
            \A i \in 1..Len(ps) :
                /\ \E j \in 1..Len(schema.properties) : schema.properties[j].key = ps[i].name
                /\ PropertyOf(schema, ps[i].name).loc
                       = IF ps[i].name \in path_params(route.path) THEN "path" ELSE "query"
                /\ (\E j \in 1..Len(schema.required) : schema.required[j] = ps[i].name)
                       <=> ~HasDefault(ps[i])
                /\ HasDefault(ps[i]) =>
                       /\ "default" \in PropertyOf(schema, ps[i].name).keys
                       /\ PropertyOf(schema, ps[i].name).default = <<ps[i].default.value>>

\* The schema the output extractor derives from a type hint: the one it
\* returns for a handler mounted once whose response hint is h.
SchemaFrom(route, h) ==
    extract_output_schema([route EXCEPT !.declared = h], clock,
                          <<[route EXCEPT !.declared = h]>>)[1]

(* C16: the output schema of a descriptor is derived from the response     *)
(* hint its route declares; without one, from the return annotation of     *)
(* the handler; and it is the generic object schema when the handler has   *)
(* neither and no docstring.  In all three cases a descriptor is built and *)
(* its output schema is not empty.                                         *)
C16_OutputSchemaSource ==
    /\ (step = "done" /\ desc.state = "raised") =>
           \/ ~routes[subject].endpoint
           \/ MetaOf(routes[subject]).example_input.k \notin {"None", "dict"}
    /\ Built =>
           LET route == routes[subject]
               out == desc.tool.output_schema
           IN /\ out.keys # {}
              /\ route.func.sig =>
                     /\ (OutputType(route) # Empty)
                            => out = SchemaFrom(route, OutputType(route))
                     /\ (OutputType(route).k = "Model")
                            => ObjectSchemaOf(out, OutputType(route))
                     /\ (OutputType(route) = Empty /\ route.func.doc = <<>>)
                            => out = GenericSchema(<<"Response object">>)

\* The hint is Optional[T]: a Union with None among its arguments.
IsOptional(h) ==
    /\ h.k = "Union"
    /\ \E i \in 1..Len(h.args) : h.args[i].k = "NoneType"
    /\ non_none_args(h.args) # <<>>

\* The T of Optional[T].
Inner(h) ==
    IF Len(non_none_args(h.args)) = 1 THEN non_none_args(h.args)[1]
    ELSE UnionT(non_none_args(h.args))

\* The schema without its description and its type.
Shape(schema) ==
    [schema EXCEPT !.keys = @ \ {"description", "type"}, !.description = <<>>,
                   !.type = <<>>]

(* C17: converting Optional[T] gives the schema of T with "null" added to  *)
(* its types (the wording of the description aside), and the example of T. *)
C17_OptionalAddsNull ==
    (conv.done /\ IsOptional(hint)) =>
        LET r == type_to_schema(Inner(hint)) IN
        /\ "type" \in conv.schema.keys
        /\ {conv.schema.type[i] : i \in 1..Len(conv.schema.type)}
               = {r[1].type[i] : i \in 1..Len(r[1].type)} \cup {"null"}
        /\ Shape(conv.schema) = Shape(r[1])
        /\ conv.example = r[2]

\* The handlers that answer GET /tools/all and GET /tools/scan.
Listing_handlers == {"bind_app_tools.get_all_tools", "get_all_tools", "scan_tools"}

(* C18: a response of GET /tools/all or GET /tools/scan of a bound         *)
(* registry is made of the descriptors a scan of the route table, as it    *)
(* is when the request is served, builds: a flagged route added since the  *)
(* scan before is among them.  (tools_found is the length of that list.)   *)
C18_ResponseFromOwnScan ==
    (obs.taken /\ obs.by \in Listing_handlers /\ app) =>
        obs.val = CompleteScan(<<>>, routes, 1)

\* The route whose content the descriptor at position k reflects after a
\* scan: the last route of the table that declares its name.
Reflected(k) == Max(Declaring(tools[k].name))

(* C19: after a scan that ran to its end, the list get_all_tools() returns *)
(* is in the enumeration order of the routes the descriptors describe: of  *)
(* two descriptors, the one listed first reflects the route enumerated     *)
(* first, also when a name was found at more than one route.               *)
C19_ListInRouteOrder ==
    (Scanned /\ ~last.raised) =>
        \A k, l \in 1..Len(get_all_tools(tools)) :
            k < l => Reflected(k) < Reflected(l)

(* C20: following a route always comes to an end, whatever the wrapping    *)
(* chain of its handler, a cyclic one included: the search for metadata    *)
(* and the unwrapping in the extractors stop, and the route is skipped,    *)
(* found to be no tool, described, or raises.                              *)
C20_ScanTerminates == (step = "enter") ~> (step = "done")

\* The parameters the parameter extractor describes one by one.
ScalarParams(route) ==
    SelectSeq(route.func.params, LAMBDA p : p.name \notin Reserved /\ ~p.var)

\* The route is described by the parameter extractor, parameter by parameter.
ParamRoute(route) ==
    Method(route) \notin BodyMethods /\ route.func.sig /\ ModelParams(route) = <<>>

(* C21: in the descriptor of a GET/DELETE route a parameter declared with  *)
(* Header(...) is tagged "header" and one declared with Cookie(...) is     *)
(* tagged "cookie"; a parameter that declares no location is tagged by its *)
(* name alone: "path" for a placeholder of the path, "query" otherwise.    *)
C21_DeclaredLocation ==
    (Built /\ ParamRoute(routes[subject])) =>
        LET route == routes[subject]
            ps == ScalarParams(route)
        IN \A i \in 1..Len(ps) :
               LET loc == PropertyOf(desc.tool.input_schema, ps[i].name).loc IN
               /\ (ps[i].default.k = "FieldInfo" /\ ps[i].default.cls = "Header")
                      => loc = "header"
               /\ (ps[i].default.k = "FieldInfo" /\ ps[i].default.cls = "Cookie")
                      => loc = "cookie"
               /\ (ps[i].default.k # "FieldInfo")
                      => loc = IF ps[i].name \in path_params(route.path)
                               THEN "path" ELSE "query"

\* The schema has a property under the key, tagged with the location.
Tagged(schema, key, loc) ==
    \E j \in 1..Len(schema.properties) :
        /\ schema.properties[j].key = key
        /\ "in" \in schema.properties[j].val.keys
        /\ schema.properties[j].val.loc = loc

(* C22: the input schema of a GET/DELETE route has a tagged property for   *)
(* every parameter of the handler outside the reserved names: a scalar     *)
(* parameter under its own name, tagged by its place, and for a parameter  *)
(* that is a model each field of the model, tagged "query"; the other      *)
(* parameters of such a route are there as well.                           *)
C22_AllParamsPresent ==
    (Built /\ Method(routes[subject]) \notin BodyMethods /\ routes[subject].func.sig) =>
        LET route == routes[subject]
            ps == ScalarParams(route)
            schema == desc.tool.input_schema
        IN \A i \in 1..Len(ps) :
               IF ps[i].annotation.k = "Model"
               THEN \A f \in 1..Len(ps[i].annotation.fields) :
                        Tagged(schema, ps[i].annotation.fields[f].name, "query")
               ELSE \E loc \in {"path", "query", "header", "cookie"} :
                        Tagged(schema, ps[i].name, loc)

(* C23: converting a Union with two or more alternatives other than None,  *)
(* with or without None among its members, gives a oneOf node that lists   *)
(* the schema of each of those alternatives, and no example.               *)
C23_UnionListsAlternatives ==
    (conv.done /\ hint.k = "Union" /\ Len(non_none_args(hint.args)) >= 2) =>
        /\ "oneOf" \in conv.schema.keys
        /\ \A i \in 1..Len(non_none_args(hint.args)) :
               \E j \in 1..Len(conv.schema.of) :
                   conv.schema.of[j] = type_to_schema(non_none_args(hint.args)[i])[1]
        /\ conv.example = None

(* C24: the method of a descriptor is the first verb its route declares,   *)
(* whatever the hash seed of the process, and the input schema is derived  *)
(* from the body exactly when that verb is POST, PUT or PATCH.             *)
C24_FirstDeclaredVerb ==
    (Built /\ routes[subject].methods # <<>>) =>
        LET route == routes[subject] IN
        /\ desc.tool.method = route.methods[1]
        /\ desc.tool.input_schema =
               IF route.methods[1] \in BodyMethods
               THEN extract_body_schema(route)[1]
               ELSE extract_param_schema(route)[1]

(* C25: a list get_all_tools() returned shows, for as long as the caller   *)
(* holds it, the descriptors it showed when it was returned, whatever      *)
(* scan_and_register_tools() and register_tool() have done since.          *)
C25_ListIsSnapshot == held.taken => Shown(held.object, tools) = held.seen

\* A caller holds a list, and the registry has changed since it got it.
C25_Witness == held.taken /\ held.seen # <<>> /\ tools # held.seen /\ Scanned

====
